---- MODULE Spec2Model ----
(***************************************************************************)
(* The tutorial CRUD applications of the repository as one state machine.  *)
(*                                                                         *)
(*   variant "API_1"   src/OTHER_API_TUT/API_1/main.py (main_2.py is the   *)
(*                     same program)      employees, SQLite, form/redirect *)
(*   variant "API_2"   src/OTHER_API_TUT/API_2/main.py                     *)
(*                                        employees, SQLite, JSON          *)
(*   variant "MSSQL"   src/OTHER_API_TUT/API_2/main_MSSql.py               *)
(*                                        employees, SQL Server, autocommit*)
(*   variant "RECORDS" src/main.py        records, SQLite, JSON            *)
(*                                                                         *)
(* Spec      every handler runs to completion as one step (the handlers of *)
(*           one server process are coroutines that never await).          *)
(* SpecConc  the employee handlers of two server processes sharing one     *)
(*           database, interleaved statement by statement.                 *)
(***************************************************************************)
EXTENDS Integers, Sequences, FiniteSets, TLC

\* ------------------------------------------------------------------ bounds
\* ids the store may hand out before the model stops inserting
MaxId == 2

\* --------------------------------------------------------- program constants
max_retries == 10
retry_delay == 5

\* ------------------------------------------------------------------ values
\* Text is a sequence of one-character strings.
NULL == <<"<null>">>
Eids == {<<"E", "1">>, <<"E", "2">>}
Names == {<<"A", "n", "a">>, <<"B", "o">>}
RightsVals == {<<"r", "w">>}
StatusVals == {<<"o", "n">>}
RemarksVals == {<<"a", "B">>}
\* search texts of GET /?search= and of POST /api/search (whose body may also
\* be malformed: no JSON object with a string "query")
Queries == {<<>>, <<" ">>, <<"a">>, <<"B", " ">>, <<"x">>, <<"_">>}
Variants == {"API_1", "API_2", "MSSQL", "RECORDS"}
EmployeeVariants == {"API_1", "API_2", "MSSQL"}
SqliteVariants == {"API_1", "API_2", "RECORDS"}
Ids == 1..MaxId
\* readings of the wall clock: time.time(), CURRENT_TIMESTAMP
Times == {1, 2}
\* RecordCreate: name, rights, status required, remarks optional
RecordCreates ==
    [name : Names, rights : RightsVals, status : StatusVals,
     remarks : RemarksVals \cup {NULL}]
\* RecordUpdate: every field optional
RecordUpdates ==
    [name : Names \cup {NULL}, rights : RightsVals \cup {NULL},
     status : StatusVals \cup {NULL}, remarks : RemarksVals \cup {NULL}]
\* skip and limit of GET / in the MS SQL variant
DefaultLimit == 100
Skips == {0, 1, 2}
Limits == {1, DefaultLimit}
Faults == {"none", "connect", "stmt1", "stmt2", "stmt3"}
ReadFaults == {"none", "connect", "stmt1"}
StartFaults == {"none", "connect", "stmt1", "stmt2"}
\* the export files of get_all_records that cannot be written
ExportFaults == SUBSET {"CSV", "JSON"}

VARIABLES
    variant,    \* which application is deployed
    phase,      \* "startup" | "serving" | "crashed"
    schema,     \* TRUE when the table exists in the database
    employees,  \* rows of table employees: [idx, eid, name, timestamp]
    records,    \* rows of table records
    seq,        \* the AUTOINCREMENT / IDENTITY high-water mark of the table
    attempt,    \* create_table's loop variable (MS SQL variant)
    sleeps,     \* time.sleep(retry_delay) calls made by create_table
    procs,      \* SpecConc: the request each server process is handling
    txn,        \* SpecConc: the open SQLite write transaction
    issued,     \* history: every id a row of the table has ever had
    resp        \* the last response: [op, code, body, open, log], open the
                \* number of connections the handler opened and did not
                \* close, log what it printed about its export files

vars == <<variant, phase, schema, employees, records, seq, attempt, sleeps,
          procs, txn, issued, resp>>

\* ------------------------------------------------------------ SQL statements
\* The primary key of a row: idx in table employees, id in table records.
RowId(r) == IF "idx" \in DOMAIN r THEN r.idx ELSE r.id

MaxOf(S) == CHOOSE x \in S : \A y \in S : y <= x

\* add_employee without its pre-check
SelectEid_Skipped(t, eid) == {}

\* SELECT eid FROM employees WHERE eid = ?
SelectEid(t, eid) == {r \in t : r.eid = eid}

\* SELECT idx FROM employees WHERE eid = ? AND idx != ?
SelectEidOther(t, eid, idx) == {r \in t : r.eid = eid /\ r.idx # idx}

\* UNIQUE on column eid left out of CREATE TABLE
UniqueEid_Unconstrained(t, eid, idx) == TRUE

\* eid TEXT UNIQUE NOT NULL: may a row with this eid be written, the row `idx`
\* itself aside?
UniqueEid(t, eid, idx) == \A r \in t : r.idx = idx \/ r.eid # eid

\* INTEGER PRIMARY KEY without AUTOINCREMENT: one more than the largest id
\* present
NextId_NoAutoincrement(t, s) == MaxOf({0} \cup {RowId(r) : r \in t}) + 1

\* idx INTEGER PRIMARY KEY AUTOINCREMENT / INT IDENTITY(1,1): the next id is one
\* more than the largest id ever handed out.
NextId(t, s) == MaxOf({s} \cup {RowId(r) : r \in t}) + 1

\* INSERT INTO employees (eid, name, timestamp) VALUES (?, ?, ?)
\* SQL Server consumes the identity value also when the insert is refused.
InsertEmployee(v, t, s, eid, name, now) ==
    IF UniqueEid(t, eid, 0)
    THEN [ok |-> TRUE,
          table |-> t \cup {[idx |-> NextId(t, s), eid |-> eid, name |-> name,
                             timestamp |-> now]},
          seq |-> NextId(t, s), rowcount |-> 1]
    ELSE [ok |-> FALSE, table |-> t,
          seq |-> IF v = "MSSQL" THEN NextId(t, s) ELSE s, rowcount |-> 0]

\* UPDATE employees SET eid = ?, name = ?, timestamp = ? WHERE idx = ?
UpdateEmployee(t, s, idx, eid, name, now) ==
    LET hit == {r \in t : r.idx = idx} IN
    IF hit # {} /\ ~UniqueEid(t, eid, idx)
    THEN [ok |-> FALSE, table |-> t, seq |-> s, rowcount |-> 0]
    ELSE [ok |-> TRUE,
          table |-> (t \ hit) \cup
                    {[idx |-> r.idx, eid |-> eid, name |-> name,
                      timestamp |-> now] : r \in hit},
          seq |-> s, rowcount |-> Cardinality(hit)]

\* DELETE FROM employees WHERE idx = ?
DeleteEmployee(t, s, idx) ==
    LET hit == {r \in t : r.idx = idx} IN
    [ok |-> TRUE, table |-> t \ hit, seq |-> s, rowcount |-> Cardinality(hit)]

\* cursor.rowcount read right after execute(). sqlite3 sets it when the
\* statement has run to completion; a statement with a RETURNING clause that
\* produced a row has not, so its rowcount still reads 0.
Rowcount(returning, affected) ==
    IF returning /\ affected > 0 THEN 0 ELSE affected

\* an INSERT that leaves column remarks out
InsertRecord_RemarksDropped(t, s, rec, now) ==
    [ok |-> TRUE,
     table |-> t \cup {[id |-> NextId(t, s), name |-> rec.name,
                        rights |-> rec.rights, status |-> rec.status,
                        remarks |-> NULL, timestamp |-> now]},
     seq |-> NextId(t, s), rowcount |-> 1, lastrowid |-> NextId(t, s)]

\* INSERT INTO records (name, rights, status, remarks) VALUES (?, ?, ?, ?)
\* timestamp DATETIME DEFAULT CURRENT_TIMESTAMP
InsertRecord(t, s, rec, now) ==
    [ok |-> TRUE,
     table |-> t \cup {[id |-> NextId(t, s), name |-> rec.name,
                        rights |-> rec.rights, status |-> rec.status,
                        remarks |-> rec.remarks, timestamp |-> now]},
     seq |-> NextId(t, s), rowcount |-> 1, lastrowid |-> NextId(t, s)]

\* timestamp = CURRENT_TIMESTAMP appended before the list is tested for empty
Updates_TimestampFirst(rec) ==
    {f \in {"name", "rights", "status", "remarks"} : rec[f] # NULL}
        \cup {"timestamp"}

\* "remarks = ?" appended whether or not the payload has remarks
Updates_RemarksAlways(rec) ==
    {f \in {"name", "rights", "status", "remarks"} : rec[f] # NULL}
        \cup {"remarks"}

\* an UPDATE that sets every column, supplied or not
Updates_All(rec) == {"name", "rights", "status", "remarks"}

\* The SET list update_record builds: a column for every field of the payload
\* that is not None, then timestamp = CURRENT_TIMESTAMP.
Updates(rec) == {f \in {"name", "rights", "status", "remarks"} : rec[f] # NULL}

\* UPDATE records SET <updates>, timestamp = CURRENT_TIMESTAMP WHERE id = ?
UpdateRecord(t, s, id, rec, now) ==
    LET hit == {r \in t : r.id = id}
        set(r, f) == IF f \in Updates(rec) THEN rec[f] ELSE r[f]
    IN [ok |-> TRUE,
        table |-> (t \ hit) \cup
                  {[id |-> r.id, name |-> set(r, "name"),
                    rights |-> set(r, "rights"), status |-> set(r, "status"),
                    remarks |-> set(r, "remarks"), timestamp |-> now] : r \in hit},
        seq |-> s, rowcount |-> Cardinality(hit)]

\* DELETE FROM records WHERE id = ?
DeleteRecord(t, s, id) ==
    LET hit == {r \in t : r.id = id} IN
    [ok |-> TRUE, table |-> t \ hit, seq |-> s, rowcount |-> Cardinality(hit)]

\* SELECT * FROM records WHERE id = ?  (fetchone)
SelectRecord(t, id) == {r \in t : r.id = id}

\* ------------------------------------------------------------------- text
\* LOWER() and str.lower() on the letters the model uses.
Lower(c) ==
    CASE c = "A" -> "a" [] c = "B" -> "b" [] c = "E" -> "e" [] OTHER -> c

LowerText(s) == [i \in 1..Len(s) |-> Lower(s[i])]

\* str.strip()
RECURSIVE Strip(_)
Strip(s) ==
    IF s = <<>> THEN s
    ELSE IF Head(s) = " " THEN Strip(Tail(s))
    ELSE IF s[Len(s)] = " " THEN Strip(SubSeq(s, 1, Len(s) - 1))
    ELSE s

\* text LIKE pattern: % matches any run of characters, _ any one character,
\* letters match whatever their case.
RECURSIVE Like(_, _)
Like(text, pat) ==
    IF pat = <<>> THEN text = <<>>
    ELSE IF Head(pat) = "%"
         THEN Like(text, Tail(pat)) \/ (text # <<>> /\ Like(Tail(text), pat))
    ELSE /\ text # <<>>
         /\ Head(pat) = "_" \/ Lower(Head(pat)) = Lower(Head(text))
         /\ Like(Tail(text), Tail(pat))

\* f"%{search}%"
SearchParam(q) == <<"%">> \o q \o <<"%">>

\* ORDER BY id DESC (idx DESC in table employees)
RECURSIVE OrderByIdDesc(_)
OrderByIdDesc(rows) ==
    IF rows = {} THEN <<>>
    ELSE LET top == CHOOSE r \in rows : \A q \in rows : RowId(q) <= RowId(r)
         IN <<top>> \o OrderByIdDesc(rows \ {top})

\* SELECT * FROM employees WHERE eid LIKE ? OR name LIKE ? ORDER BY idx DESC
SelectEmployeesLike(t, search) ==
    OrderByIdDesc({r \in t : \/ Like(r.eid, SearchParam(search))
                            \/ Like(r.name, SearchParam(search))})

\* SELECT * FROM records WHERE LOWER(name) LIKE ? OR LOWER(remarks) LIKE ?
\* ORDER BY id DESC; LOWER(NULL) LIKE ? is NULL, which selects nothing.
SelectRecordsLike(t, param) ==
    OrderByIdDesc({r \in t : \/ Like(LowerText(r.name), param)
                            \/ /\ r.remarks # NULL
                               /\ Like(LowerText(r.remarks), param)})

\* ------------------------------------------------------------- the handlers
\* What a handler leaves behind: the response code, the committed table and
\* sequence, and the number of connections it opened and did not close.
OutBody(code, t, s, leak, body) ==
    [code |-> code, table |-> t, seq |-> s, leak |-> leak, body |-> body,
     log |-> {}, lock |-> FALSE]

Out(code, t, s, leak) == OutBody(code, t, s, leak, <<>>)

\* The code of a successful mutation: a redirect in the form variants.
Success(v) == IF v = "API_2" THEN 200 ELSE 303

\* Statements of the SQLite variants take effect at commit(); the MS SQL
\* connection is opened with autocommit=True.
Autocommit(v) == v = "MSSQL"

\* A write statement of a SQLite connection needs the write lock of the
\* database file. When another connection holds it (locked) the statement
\* waits for the timeout of sqlite3.connect (5 s) and raises OperationalError
\* "database is locked", a sqlite3.Error; a SELECT is not held up.
Busy(v, locked) == locked /\ ~Autocommit(v)

\* fault names the database call of the handler that raises: "connect", or the
\* n-th execute()/commit() in program order ("stmt1", ...), or "none".
add_employee(v, t, s, eid, name, now, fault, locked) ==
    IF fault = "connect" THEN Out(500, t, s, 0)
    ELSE IF fault = "stmt1" THEN Out(500, t, s, 0)
    ELSE IF SelectEid(t, eid) # {} THEN Out(400, t, s, 0)
    ELSE LET ins == InsertEmployee(v, t, s, eid, name, now) IN
         IF fault = "stmt2" \/ Busy(v, locked) THEN Out(500, t, s, 0)
         ELSE IF ~ins.ok
              THEN Out(500, t, IF Autocommit(v) THEN ins.seq ELSE s, 0)
         ELSE IF fault = "stmt3"
              THEN IF Autocommit(v) THEN Out(500, ins.table, ins.seq, 0)
                   ELSE Out(500, t, s, 0)
         ELSE Out(Success(v), ins.table, ins.seq, 0)

\* API_2 adds RETURNING idx to the UPDATE and reads cursor.rowcount before
\* commit(); an HTTPException leaves through finally: conn.close(). The update
\* is never committed. When the UPDATE matched a row its RETURNING row is
\* unread, the statement is still active, and close() cannot end the
\* connection inside SQLite: the transaction and its write lock stay (lock)
\* while the server answers the request, until the exception that holds the
\* cursor is dropped (FreeCursor).
update_employee(v, t, s, idx, eid, name, now, fault, locked) ==
    IF fault = "connect" THEN Out(500, t, s, 0)
    ELSE IF fault = "stmt1" THEN Out(500, t, s, 0)
    ELSE IF SelectEidOther(t, eid, idx) # {} THEN Out(400, t, s, 0)
    ELSE LET upd == UpdateEmployee(t, s, idx, eid, name, now) IN
         IF fault = "stmt2" \/ Busy(v, locked) \/ ~upd.ok
         THEN Out(500, t, s, 0)
         ELSE IF v = "API_2" /\ Rowcount(TRUE, upd.rowcount) = 0
              THEN [Out(404, t, s, 0) EXCEPT !.lock = upd.rowcount > 0]
         ELSE IF fault = "stmt3"
              THEN IF Autocommit(v) THEN Out(500, upd.table, s, 0)
                   ELSE Out(500, t, s, 0)
         ELSE Out(Success(v), upd.table, s, 0)

\* API_2 reads cursor.rowcount after commit() and answers 404 when it is 0; the
\* form variants redirect whatever the DELETE matched.
delete_employee(v, t, s, idx, fault, locked) ==
    IF fault = "connect" THEN Out(500, t, s, 0)
    ELSE LET del == DeleteEmployee(t, s, idx) IN
         IF fault = "stmt1" \/ Busy(v, locked) THEN Out(500, t, s, 0)
         ELSE IF fault = "stmt2"
              THEN IF Autocommit(v) THEN Out(500, del.table, s, 0)
                   ELSE Out(500, t, s, 0)
         ELSE IF v = "API_2" /\ Rowcount(FALSE, del.rowcount) = 0
              THEN Out(404, del.table, s, 0)
         ELSE Out(Success(v), del.table, s, 0)

\* a page cut without its OFFSET
Page_NoOffset(rows, skip, limit) ==
    SubSeq(rows, 1, IF limit < Len(rows) THEN limit ELSE Len(rows))

\* OFFSET ? ROWS FETCH NEXT ? ROWS ONLY
Page(rows, skip, limit) ==
    SubSeq(rows, skip + 1, IF skip + limit < Len(rows) THEN skip + limit
                           ELSE Len(rows))

\* GET /: the statement runs inside try/finally. `if search:` takes None and
\* the empty string for no filter. Only the MS SQL variant pages.
read_employees(v, t, s, search, skip, limit, fault) ==
    IF fault = "connect" THEN Out(500, t, s, 0)
    ELSE IF fault = "stmt1" THEN Out(500, t, s, 0)
    ELSE LET rows == IF search = NULL \/ search = <<>>
                     THEN OrderByIdDesc(t)
                     ELSE SelectEmployeesLike(t, search)
         IN OutBody(200, t, s, 0,
                    IF v = "MSSQL" THEN Page(rows, skip, limit) ELSE rows)

\* The handlers of the records variant. get_db_connection returns None when
\* connect fails and the handler answers 500. A statement on a database whose
\* table was never created raises like any other storage error (sch = FALSE).
create_record(sch, t, s, rec, now, fault) ==
    IF fault = "connect" THEN Out(500, t, s, 0)
    ELSE IF fault = "stmt1" \/ ~sch THEN Out(500, t, s, 0)
    ELSE LET ins == InsertRecord(t, s, rec, now) IN
         IF fault = "stmt2" THEN Out(500, t, s, 0)
         ELSE IF fault = "stmt3" THEN Out(500, ins.table, ins.seq, 0)
         ELSE LET new == SelectRecord(ins.table, ins.lastrowid) IN
              IF new = {} THEN Out(500, ins.table, ins.seq, 0)
              ELSE OutBody(201, ins.table, ins.seq, 0, OrderByIdDesc(new))

\* The HTTPException(404) is raised inside the try block whose
\* `except Exception` answers 500 with the 404's text as detail.
update_record(sch, t, s, id, rec, now, fault) ==
    IF fault = "connect" THEN Out(500, t, s, 0)
    ELSE IF Updates(rec) = {} THEN Out(400, t, s, 0)
    ELSE IF fault = "stmt1" \/ ~sch THEN Out(500, t, s, 0)
    ELSE LET upd == UpdateRecord(t, s, id, rec, now) IN
         IF fault = "stmt2" THEN Out(500, t, s, 0)
         ELSE IF Rowcount(FALSE, upd.rowcount) = 0 THEN Out(500, upd.table, s, 0)
         ELSE IF fault = "stmt3" THEN Out(500, upd.table, s, 0)
         ELSE OutBody(200, upd.table, s, 0,
                      OrderByIdDesc(SelectRecord(upd.table, id)))

delete_record(sch, t, s, id, fault) ==
    IF fault = "connect" THEN Out(500, t, s, 0)
    ELSE IF fault = "stmt1" \/ ~sch THEN Out(500, t, s, 0)
    ELSE LET del == DeleteRecord(t, s, id) IN
         IF fault = "stmt2" THEN Out(500, t, s, 0)
         ELSE IF Rowcount(FALSE, del.rowcount) = 0 THEN Out(500, del.table, s, 0)
         ELSE Out(204, del.table, s, 0)

\* The SELECT runs outside any try block: when it raises, conn.close() is
\* never reached. The export blocks swallow their own exceptions.
\* an export block without its try/except
TryExport_Unguarded(kind, io) ==
    IF kind \in io THEN "raised" ELSE kind \o " exported successfully"

\* One export block of get_all_records (CREATE_CSV, CREATE_JSON are True):
\* try: write the file, print success; except Exception: print the failure.
\* io is the set of export files that cannot be written.
TryExport(kind, io) ==
    IF kind \in io THEN kind \o " export failed"
    ELSE kind \o " exported successfully"

\* GET /api/records/all: SELECT, the two export blocks, close, response.
get_all_records(sch, t, s, fault, io) ==
    IF fault = "connect" THEN Out(500, t, s, 0)
    ELSE IF fault = "stmt1" \/ ~sch THEN Out(500, t, s, 1)
    ELSE LET csv == TryExport("CSV", io) IN
         IF csv = "raised" THEN Out(500, t, s, 1)
         ELSE LET json == TryExport("JSON", io) IN
              IF json = "raised" THEN [Out(500, t, s, 1) EXCEPT !.log = {csv}]
              ELSE [OutBody(200, t, s, 0, OrderByIdDesc(t))
                      EXCEPT !.log = {csv, json}]

\* body is the "query" text of the request, or "malformed". A blank query
\* returns [] before any connection is opened.
search_records(sch, t, s, body, fault) ==
    IF body = <<"malformed">> THEN Out(400, t, s, 0)
    ELSE IF Strip(body) = <<>> THEN Out(200, t, s, 0)
    ELSE IF fault = "connect" THEN Out(500, t, s, 0)
    ELSE IF fault = "stmt1" \/ ~sch THEN Out(500, t, s, 1)
    ELSE OutBody(200, t, s, 0,
                 SelectRecordsLike(t, SearchParam(LowerText(Strip(body)))))

\* GET /api/export/csv: one CSV line per record under the header ID, Name,
\* Rights, Status, Remarks, Timestamp; remarks `or ''`.
export_records_to_csv(sch, t, s, fault) ==
    IF fault = "connect" THEN Out(500, t, s, 0)
    ELSE IF fault = "stmt1" \/ ~sch THEN Out(500, t, s, 1)
    ELSE LET rows == OrderByIdDesc(t) IN
         OutBody(200, t, s, 0,
                 [i \in 1..Len(rows) |->
                    [rows[i] EXCEPT !.remarks = IF @ = NULL THEN <<>> ELSE @]])

\* Seconds create_table has spent in time.sleep(retry_delay).
Slept(n) == n * retry_delay

\* ----------------------------------------------------------------- startup
\* What an initializer leaves behind: the phase the process is in, whether the
\* table exists, create_table's loop state, and the connections left open.
\* The database as startup finds or leaves it: whether the table exists, its
\* rows and its id sequence.
Db(sch, t, s) == [schema |-> sch, table |-> t, seq |-> s]

\* a CREATE TABLE that first drops the table
CreateTableIfNotExists_DropFirst(sch, t, s) == Db(TRUE, {}, 0)

\* CREATE TABLE IF NOT EXISTS ... / IF NOT EXISTS (SELECT * FROM sys.objects
\* ...) BEGIN CREATE TABLE ... END: an existing table is left alone.
CreateTableIfNotExists(sch, t, s) == IF sch THEN Db(sch, t, s) ELSE Db(TRUE, {}, 0)

Started(ph, db, att, slept, leak) ==
    [phase |-> ph, schema |-> db.schema, table |-> db.table, seq |-> db.seq,
     attempt |-> att, sleeps |-> slept, leak |-> leak]

\* The module-level create_table() of the SQLite employees variants: connect,
\* CREATE TABLE IF NOT EXISTS, commit, with close in finally. An exception
\* ends the import of the module. sqlite3 opens no transaction for a CREATE
\* TABLE: the table is there once execute() has returned, also when the
\* commit() after it ("stmt2") raises.
create_table_sqlite(sch, t, s, fault) ==
    IF fault = "none"
    THEN Started("serving", CreateTableIfNotExists(sch, t, s), 0, 0, 0)
    ELSE IF fault = "stmt2"
    THEN Started("crashed", CreateTableIfNotExists(sch, t, s), 0, 0, 0)
    ELSE Started("crashed", Db(sch, t, s), 0, 0, 0)

\* a loop that always goes round again
MayRetry_Always(att) == TRUE

\* for attempt in range(max_retries): may the loop go round again after a
\* RuntimeError from get_db_connection?
MayRetry(att) == att < max_retries - 1

\* a loop whose `except` retries database errors as well
create_table_mssql_RetryAll(sch, t, s, att, slept, fault) ==
    IF fault # "none"
    THEN IF MayRetry(att)
         THEN Started("startup", Db(sch, t, s), att + 1, slept + 1, 0)
         ELSE Started("crashed", Db(sch, t, s), att, slept, 0)
    ELSE Started("serving", CreateTableIfNotExists(sch, t, s), att, slept, 0)

\* One iteration of the loop of create_table in the MS SQL variant. The
\* connection is autocommit, so the table exists once execute() returned;
\* conn.close() is reached only on the path that returns.
create_table_mssql(sch, t, s, att, slept, fault) ==
    IF fault = "connect"
    THEN IF MayRetry(att)
         THEN Started("startup", Db(sch, t, s), att + 1, slept + 1, 0)
         ELSE Started("crashed", Db(sch, t, s), att, slept, 0)
    ELSE IF fault = "stmt1" THEN Started("crashed", Db(sch, t, s), att, slept, 1)
    ELSE IF fault = "stmt2"
         THEN Started("crashed", CreateTableIfNotExists(sch, t, s), att, slept, 1)
    ELSE Started("serving", CreateTableIfNotExists(sch, t, s), att, slept, 0)

\* init_db of the records variant, run by the lifespan handler: it returns
\* without a word when get_db_connection returned None; its statements run
\* outside any try block, so an exception from CREATE TABLE ("stmt1") or from
\* commit() ("stmt2", the table then exists) leaves the connection open.
init_db(sch, t, s, fault) ==
    IF fault = "connect" THEN Started("serving", Db(sch, t, s), 0, 0, 0)
    ELSE IF fault = "stmt1" THEN Started("crashed", Db(sch, t, s), 0, 0, 1)
    ELSE IF fault = "stmt2"
         THEN Started("crashed", CreateTableIfNotExists(sch, t, s), 0, 0, 1)
    ELSE Started("serving", CreateTableIfNotExists(sch, t, s), 0, 0, 0)

\* ---------------------------------------------------------------- actions
Respond(op, out) ==
    resp' = [op |-> op, code |-> out.code, body |-> out.body,
             open |-> out.leak, log |-> out.log]

Serving(v) == phase = "serving" /\ variant \in v

\* txn is the open write transaction of the SQLite database file: the
\* connection that owns it holds the write lock. Lingering is the transaction
\* of a connection that was closed with a statement still active.
NoTxn == [owner |-> "none", table |-> {}, seq |-> 0]
Lingering == [owner |-> "closed", table |-> {}, seq |-> 0]
Locked == txn.owner # "none"

\* A request to an employees variant, from its arrival to its response: the
\* handler's outcome becomes the state. The handlers are async def without an
\* await, so no other request of the process runs in between, and the server
\* has dropped the handler's exception, and with it the cursor and any lock
\* the closed connection still held (out.lock), when the response is out.
EmployeesReq(op, out) ==
    /\ Serving(EmployeeVariants)
    /\ out.seq <= MaxId
    /\ employees' = out.table
    /\ seq' = out.seq
    /\ issued' = issued \cup {RowId(r) : r \in out.table}
    /\ Respond(op, out)
    /\ UNCHANGED <<variant, phase, schema, records, attempt, sleeps, procs, txn>>

AddEmployeeReq(eid, name, now, fault) ==
    EmployeesReq("add_employee",
                 add_employee(variant, employees, seq, eid, name, now, fault,
                              Locked))

UpdateEmployeeReq(idx, eid, name, now, fault) ==
    EmployeesReq("update_employee",
                 update_employee(variant, employees, seq, idx, eid, name, now,
                                 fault, Locked))

DeleteEmployeeReq(idx, fault) ==
    EmployeesReq("delete_employee",
                 delete_employee(variant, employees, seq, idx, fault, Locked))

ReadEmployeesReq(search, skip, limit, fault) ==
    /\ variant # "MSSQL" => skip = 0 /\ limit = DefaultLimit
    /\ EmployeesReq("read_employees",
                    read_employees(variant, employees, seq, search, skip, limit,
                                   fault))

\* A request to the records variant.
RecordsReq(op, out) ==
    /\ Serving({"RECORDS"})
    /\ records' = out.table
    /\ out.seq <= MaxId
    /\ seq' = out.seq
    /\ issued' = issued \cup {RowId(r) : r \in out.table}
    /\ Respond(op, out)
    /\ UNCHANGED <<variant, phase, schema, employees, attempt, sleeps, procs,
                   txn>>

CreateRecordReq(rec, now, fault) ==
    RecordsReq("create_record",
               create_record(schema, records, seq, rec, now, fault))

UpdateRecordReq(id, rec, now, fault) ==
    RecordsReq("update_record",
               update_record(schema, records, seq, id, rec, now, fault))

DeleteRecordReq(id, fault) ==
    RecordsReq("delete_record", delete_record(schema, records, seq, id, fault))

GetAllRecordsReq(fault, io) ==
    RecordsReq("get_all_records",
               get_all_records(schema, records, seq, fault, io))

SearchRecordsReq(body, fault) ==
    RecordsReq("search_records",
               search_records(schema, records, seq, body, fault))

ExportCsvReq(fault) ==
    RecordsReq("export_records_to_csv",
               export_records_to_csv(schema, records, seq, fault))

\* The process starts: the initializer of the deployed variant runs.
Startup(op, st) ==
    /\ phase = "startup"
    /\ phase' = st.phase
    /\ schema' = st.schema
    /\ attempt' = st.attempt
    /\ sleeps' = st.sleeps
    /\ employees' = IF variant = "RECORDS" THEN employees ELSE st.table
    /\ records' = IF variant = "RECORDS" THEN st.table ELSE records
    /\ seq' = st.seq
    /\ resp' = [op |-> op, code |-> 0, body |-> <<>>, open |-> st.leak,
                log |-> {}]
    /\ UNCHANGED <<variant, issued, procs, txn>>

CreateTableSqlite(fault) ==
    /\ variant \in {"API_1", "API_2"}
    /\ Startup("create_table",
               create_table_sqlite(schema, employees, seq, fault))

CreateTableMssql(fault) ==
    /\ variant = "MSSQL"
    /\ Startup("create_table",
               create_table_mssql(schema, employees, seq, attempt, sleeps,
                                  fault))

InitDb(fault) ==
    /\ variant = "RECORDS"
    /\ Startup("init_db", init_db(schema, records, seq, fault))

\* The process is stopped and started again; the database stays.
Restart ==
    /\ phase \in {"serving", "crashed"}
    /\ phase' = "startup"
    /\ attempt' = 0
    /\ sleeps' = 0
    /\ resp' = [op |-> "none", code |-> 0, body |-> <<>>, open |-> 0,
                log |-> {}]
    /\ UNCHANGED <<variant, schema, employees, records, seq, issued, procs,
                   txn>>

\* The server processes of SpecConc, and what each is doing: pc is "idle"
\* between requests (op, code and how then tell how the last one ended), the
\* database call the handler makes next, or "respond" while the server sends
\* the 404 of an update whose statement is still active.
Procs == {"w1", "w2"}
Idle(op, code, how) ==
    [pc |-> "idle", op |-> op, idx |-> 0, eid |-> NULL, name |-> NULL,
     now |-> 0, rc |-> 0, code |-> code, how |-> how]
Init ==
    /\ procs = [p \in Procs |-> Idle("none", 0, "none")]
    /\ txn = NoTxn
    /\ variant \in Variants
    /\ phase = "startup"
    /\ schema = FALSE
    /\ employees = {}
    /\ records = {}
    /\ seq = 0
    /\ issued = {}
    /\ attempt = 0
    /\ sleeps = 0
    /\ resp = [op |-> "none", code |-> 0, body |-> <<>>, open |-> 0,
               log |-> {}]

\* ----------------------------------------------------------- request inputs
\* Every request is tried with no fault; a fault is tried at every database
\* call of every handler, with one payload per handler.
Faulted == Faults \ {"none"}
AName == CHOOSE n \in Names : TRUE
ATime == CHOOSE n \in Times : TRUE
ARecord == CHOOSE r \in RecordCreates : r.remarks # NULL
AddInputs ==
    (Eids \X Names \X Times \X {"none"})
        \cup (Eids \X {AName} \X {ATime} \X Faulted)
UpdateInputs ==
    (Ids \X Eids \X Names \X Times \X {"none"})
        \cup (Ids \X Eids \X {AName} \X {ATime} \X Faulted)
DeleteInputs == Ids \X (Faults \ {"stmt3"})
ReadInputs ==
    ((Queries \cup {NULL}) \X Skips \X Limits \X {"none"})
        \cup ({NULL} \X {0} \X {DefaultLimit} \X (ReadFaults \ {"none"}))
CreateRecordInputs ==
    (RecordCreates \X Times \X {"none"})
        \cup ({ARecord} \X {ATime} \X Faulted)
UpdateRecordInputs ==
    (Ids \X RecordUpdates \X Times \X {"none"})
        \cup (Ids \X {ARecord, [f \in DOMAIN ARecord |-> NULL]} \X {ATime}
                  \X Faulted)
SearchInputs == (Queries \cup {<<"malformed">>}) \X ReadFaults

Next ==
    \/ \E in \in AddInputs : AddEmployeeReq(in[1], in[2], in[3], in[4])
    \/ \E in \in UpdateInputs :
          UpdateEmployeeReq(in[1], in[2], in[3], in[4], in[5])
    \/ \E in \in DeleteInputs : DeleteEmployeeReq(in[1], in[2])
    \/ \E in \in ReadInputs : ReadEmployeesReq(in[1], in[2], in[3], in[4])
    \/ \E in \in CreateRecordInputs : CreateRecordReq(in[1], in[2], in[3])
    \/ \E in \in UpdateRecordInputs :
          UpdateRecordReq(in[1], in[2], in[3], in[4])
    \/ \E in \in DeleteInputs : DeleteRecordReq(in[1], in[2])
    \/ \E fault \in ReadFaults, io \in ExportFaults :
          GetAllRecordsReq(fault, io)
    \/ \E in \in SearchInputs : SearchRecordsReq(in[1], in[2])
    \/ \E fault \in ReadFaults : ExportCsvReq(fault)
    \/ \E fault \in StartFaults : CreateTableSqlite(fault)
    \/ \E fault \in StartFaults : CreateTableMssql(fault)
    \/ \E fault \in StartFaults : InitDb(fault)
    \/ Restart

Spec == Init /\ [][Next]_vars
\* ------------------------------------------------ interleaved employee requests
\* Server processes that share the database run their handlers statement by
\* statement. A SQLite write statement opens the connection's transaction and
\* takes the write lock of the database file; its effect is in `txn` until
\* commit(). The MS SQL connection commits every statement on its own.
ConcUnchanged == UNCHANGED <<variant, phase, schema, records, attempt, sleeps,
                             resp>>

Finish(p, code, how) ==
    procs' = [procs EXCEPT ![p] = Idle(procs[p].op, code, how)]

Goto(p, pc, rc) ==
    procs' = [procs EXCEPT ![p].pc = pc, ![p].rc = rc]

\* A request arrives: conn = get_db_connection().
Begin(p, op, idx, eid, name, now) ==
    /\ procs[p].pc = "idle"
    /\ procs' = [procs EXCEPT ![p] =
                   [pc |-> IF op = "delete_employee" THEN "write" ELSE "select",
                    op |-> op, idx |-> idx, eid |-> eid, name |-> name,
                    now |-> now, rc |-> 0, code |-> 0, how |-> "none"]]
    /\ UNCHANGED <<employees, seq, txn, issued>>
    /\ ConcUnchanged

\* The pre-check SELECT of add_employee and update_employee, and the 400.
PreCheck(p) ==
    LET r == procs[p]
        found == IF r.op = "add_employee" THEN SelectEid(employees, r.eid)
                 ELSE SelectEidOther(employees, r.eid, r.idx)
    IN /\ r.pc = "select"
       /\ IF found # {} THEN Finish(p, 400, "precheck") ELSE Goto(p, "write", 0)
       /\ UNCHANGED <<employees, seq, txn, issued>>
       /\ ConcUnchanged

\* The INSERT, UPDATE or DELETE of the request, on the committed table.
Statement(v, r, t, s) ==
    IF r.op = "add_employee" THEN InsertEmployee(v, t, s, r.eid, r.name, r.now)
    ELSE IF r.op = "update_employee"
         THEN UpdateEmployee(t, s, r.idx, r.eid, r.name, r.now)
    ELSE DeleteEmployee(t, s, r.idx)

\* execute() of the write statement. An IntegrityError is a sqlite3.Error /
\* pyodbc.Error: the handler answers 500 and closes the connection.
Execute(p) ==
    LET r == procs[p]
        res == Statement(variant, r, employees, seq)
    IN /\ r.pc = "write"
       /\ Autocommit(variant) \/ txn.owner = "none"
       /\ IF Autocommit(variant)
          THEN /\ employees' = res.table
               /\ seq' = res.seq
               /\ txn' = txn
               /\ IF res.ok THEN Goto(p, "commit", res.rowcount)
                  ELSE Finish(p, 500, "constraint")
          ELSE /\ UNCHANGED <<employees, seq>>
               /\ IF ~res.ok THEN txn' = txn /\ Finish(p, 500, "constraint")
                  ELSE IF /\ variant = "API_2" /\ r.op = "update_employee"
                          /\ Rowcount(TRUE, res.rowcount) = 0
                       THEN IF res.rowcount > 0
                            THEN txn' = Lingering /\ Goto(p, "respond", 0)
                            ELSE txn' = txn /\ Finish(p, 404, "rowcount")
                  ELSE /\ txn' = [owner |-> p, table |-> res.table,
                                  seq |-> res.seq]
                       /\ Goto(p, "commit", res.rowcount)
       /\ res.seq <= MaxId
       /\ issued' = issued \cup {r2.idx : r2 \in employees'}
       /\ ConcUnchanged

\* The write lock is held by another connection for longer than the busy
\* timeout of sqlite3.connect: OperationalError, database is locked.
BusyTimeout(p) ==
    /\ procs[p].pc = "write"
    /\ ~Autocommit(variant)
    /\ txn.owner \notin {"none", p}
    /\ Finish(p, 500, "busy")
    /\ UNCHANGED <<employees, seq, txn, issued>>
    /\ ConcUnchanged

\* The server has answered the 404 of API_2's update_employee and drops the
\* exception: the cursor is freed, SQLite finalizes the statement, rolls the
\* lingering transaction back and releases the write lock. Until then the
\* write statements of the other process wait (BusyTimeout).
FreeCursor(p) ==
    /\ procs[p].pc = "respond"
    /\ txn = Lingering
    /\ txn' = NoTxn
    /\ Finish(p, 404, "rowcount")
    /\ UNCHANGED <<employees, seq, issued>>
    /\ ConcUnchanged

\* conn.commit(), the rowcount check of API_2's delete_employee, the response.
Commit(p) ==
    LET r == procs[p] IN
    /\ r.pc = "commit"
    /\ IF Autocommit(variant) THEN UNCHANGED <<employees, seq, txn>>
       ELSE /\ txn.owner = p
            /\ employees' = txn.table
            /\ seq' = txn.seq
            /\ txn' = NoTxn
    /\ IF /\ variant = "API_2" /\ r.op = "delete_employee"
          /\ Rowcount(FALSE, r.rc) = 0
       THEN Finish(p, 404, "rowcount")
       ELSE Finish(p, Success(variant), "ok")
    /\ issued' = issued \cup {r2.idx : r2 \in employees'}
    /\ ConcUnchanged

ConcInit ==
    /\ procs = [p \in Procs |-> Idle("none", 0, "none")]
    /\ txn = NoTxn
    /\ variant \in EmployeeVariants
    /\ phase = "serving"
    /\ schema = TRUE
    /\ employees = {}
    /\ records = {}
    /\ seq = 0
    /\ issued = {}
    /\ attempt = 0
    /\ sleeps = 0
    /\ resp = [op |-> "none", code |-> 0, body |-> <<>>, open |-> 0,
               log |-> {}]

ConcNext ==
    \E p \in Procs :
       \/ \E eid \in Eids, name \in Names :
            Begin(p, "add_employee", 0, eid, name, ATime)
       \/ \E idx \in Ids, eid \in Eids, name \in Names :
            Begin(p, "update_employee", idx, eid, name, ATime)
       \/ \E idx \in Ids : Begin(p, "delete_employee", idx, NULL, NULL, 0)
       \/ PreCheck(p)
       \/ Execute(p)
       \/ BusyTimeout(p)
       \/ Commit(p)
       \/ FreeCursor(p)

SpecConc == ConcInit /\ [][ConcNext]_vars

\* ------------------------------------------------------------------ claims
Ok == {200, 201, 204, 303}

HoldsEid(t, eid) == \E r \in t : r.eid = eid

\* C1: an add_employee whose eid an existing row already holds leaves table
\* employees as it was (same rows, same count, every field) and, when no
\* database call of the request fails, answers 400, in every employees variant.
C1_DuplicateAddRefused ==
    [][\A in \in AddInputs :
         (/\ resp'.op = "add_employee" /\ HoldsEid(employees, in[1])
          /\ AddEmployeeReq(in[1], in[2], in[3], in[4]))
         => /\ employees' = employees
            /\ Cardinality(employees') = Cardinality(employees)
            /\ in[4] = "none" => resp'.code = 400]_vars

C1_Witness ==
    /\ resp.op = "add_employee"
    /\ resp.code = 400
    /\ employees # {}

\* C2: after any sequence of requests, an add_employee whose eid no present row
\* holds succeeds (when no database call fails) and inserts exactly one row,
\* whose idx no row has ever had before, deleted rows included.
C2_FreshAddNewId ==
    [][\A in \in AddInputs :
         (/\ resp'.op = "add_employee" /\ in[4] = "none"
          /\ ~HoldsEid(employees, in[1])
          /\ AddEmployeeReq(in[1], in[2], in[3], in[4]))
         => /\ resp'.code \in Ok
            /\ \E r \in employees' :
                 /\ r \notin employees
                 /\ employees' = employees \cup {r}
                 /\ r.idx \notin issued
                 /\ r.eid = in[1] /\ r.name = in[2]]_vars

\* an add succeeded after a row was deleted
C2_Witness ==
    /\ resp.op = "add_employee"
    /\ resp.code \in Ok
    /\ \E i \in issued : \A r \in employees : r.idx # i

\* C3: update_employee(idx, eid, name) answers 400 whenever a row with another
\* idx holds eid, and succeeds when eid is the one row idx already holds.
C3_UpdateDuplicateOrOwn ==
    [][\A in \in UpdateInputs :
         (UpdateEmployeeReq(in[1], in[2], in[3], in[4], in[5])
             /\ in[5] = "none")
         => /\ (\E r \in employees : r.eid = in[2] /\ r.idx # in[1])
                  => resp'.code = 400
            /\ (\E r \in employees : r.eid = in[2] /\ r.idx = in[1])
                  => resp'.code \in Ok]_vars

\* C4: a delete of an id no row has answers 404 and changes nothing; a delete
\* of an id a row has removes that row and no other, and the id is then gone.
DeleteClaim(t, t2, key, code) ==
    IF \E r \in t : RowId(r) = key
    THEN /\ code \in Ok
         /\ t2 = {r \in t : RowId(r) # key}
         /\ Cardinality(t2) = Cardinality(t) - 1
    ELSE code = 404 /\ t2 = t

C4_DeleteNotFoundOrOne ==
    [][/\ \A in \in DeleteInputs :
            (DeleteEmployeeReq(in[1], in[2]) /\ in[2] = "none")
            => DeleteClaim(employees, employees', in[1], resp'.code)
       /\ \A in \in DeleteInputs :
            (DeleteRecordReq(in[1], in[2]) /\ in[2] = "none" /\ schema)
            => DeleteClaim(records, records', in[1], resp'.code)]_vars

\* C5: an update whose target id no row has answers 404, not a success and not
\* a store error, and leaves the table as it was.
C5_UpdateNotFound ==
    [][/\ \A in \in UpdateInputs :
            (UpdateEmployeeReq(in[1], in[2], in[3], in[4], in[5])
                /\ in[5] = "none" /\ \A r \in employees : r.idx # in[1])
            => resp'.code = 404 /\ employees' = employees
       /\ \A in \in UpdateRecordInputs :
            (UpdateRecordReq(in[1], in[2], in[3], in[4])
                /\ in[4] = "none" /\ schema /\ \A r \in records : r.id # in[1])
            => resp'.code = 404 /\ records' = records]_vars

\* C6: under any interleaving of the statements of concurrent add_employee,
\* update_employee and delete_employee requests, no two rows of table employees
\* hold the same eid, committed or pending in the open transaction.
C6_EidUnique ==
    \A t \in {employees, txn.table} :
       \A r1 \in t, r2 \in t : r1.eid = r2.eid => r1 = r2

\* two adds of one eid both passed the pre-check; one inserted and the UNIQUE
\* constraint refused the other
C6_Witness ==
    \E p \in Procs, q \in Procs :
       /\ p # q
       /\ procs[p].pc = "idle" /\ procs[q].pc = "idle"
       /\ procs[p].op = "add_employee" /\ procs[p].how = "ok"
       /\ procs[q].op = "add_employee" /\ procs[q].how = "constraint"
       /\ Cardinality(employees) = 1

\* C7: an add_employee whose INSERT runs when another request has meanwhile
\* committed a row with the same eid (both pre-checks ran before) inserts
\* nothing and answers 400, like any add of a used eid.
C7_RacingAddRefused400 ==
    [][\A p \in Procs :
         (Execute(p) /\ procs[p].op = "add_employee"
             /\ HoldsEid(employees, procs[p].eid))
         => /\ {r.eid : r \in employees'} = {r.eid : r \in employees}
            /\ Cardinality(employees') = Cardinality(employees)
            /\ procs'[p].code = 400]_vars

\* C8: a successful update changes, in the target row, the fields the payload
\* supplies and the timestamp, and nothing else: an omitted field keeps its
\* value, the id stays, every other row stays, no row appears or disappears.
\* Stated in every reachable state for every request: the table the handler
\* leaves (what UpdateRecordReq / UpdateEmployeeReq write) against the table
\* it found.
RecordFields == {"name", "rights", "status", "remarks"}

C8_UpdateFrame ==
    /\ \A in \in UpdateRecordInputs :
         LET out == update_record(schema, records, seq,
                                  in[1], in[2], in[3], in[4])
         IN (Serving({"RECORDS"}) /\ out.code \in Ok)
            => \E old \in records, new \in out.table :
                 /\ old.id = in[1] /\ new.id = in[1]
                 /\ out.table \ {new} = records \ {old}
                 /\ new.timestamp = in[3]
                 /\ \A f \in RecordFields :
                      new[f] = IF in[2][f] = NULL THEN old[f] ELSE in[2][f]
    /\ \A in \in UpdateInputs :
         LET out == update_employee(variant, employees, seq,
                                    in[1], in[2], in[3], in[4], in[5], Locked)
         IN (Serving(EmployeeVariants) /\ out.code \in Ok)
            => /\ {r \in out.table : r.idx # in[1]}
                    = {r \in employees : r.idx # in[1]}
               /\ {r.idx : r \in out.table} = {r.idx : r \in employees}
               /\ \A r \in out.table :
                    r.idx = in[1] =>
                      r.eid = in[2] /\ r.name = in[3] /\ r.timestamp = in[4]

\* a record was updated while another record was in the table
C8_Witness ==
    /\ resp.op = "update_record"
    /\ resp.code = 200
    /\ Cardinality(records) >= 2

\* C9: every handler and every initializer closes the connection it opened, on
\* every exit path: none is open when the handler has returned or raised.
C9_ConnectionsClosed == resp.open = 0

\* C10: create_table of the MS SQL variant terminates: every pass of its loop
\* either ends initialization or moves on to the next of at most max_retries
\* attempts; it returns as soon as an attempt connects and creates the table,
\* and raises when the last attempt fails to connect.
C10_CreateTableTerminates ==
    [][\A f \in StartFaults :
         CreateTableMssql(f)
         => /\ attempt < max_retries
            /\ f = "none" => phase' = "serving" /\ schema'
            /\ (f = "connect" /\ attempt + 1 = max_retries) => phase' = "crashed"
            /\ phase' = "startup"
                 => f = "connect" /\ attempt' = attempt + 1
                      /\ attempt' < max_retries]_vars

\* the tenth attempt has failed to connect, after nine sleeps
C10_Witness ==
    /\ variant = "MSSQL"
    /\ phase = "crashed"
    /\ attempt + 1 = max_retries
    /\ Slept(sleeps) = (max_retries - 1) * retry_delay
    /\ resp.open = 0
\* The rows of a listing, and whether text holds s as a literal substring,
\* letter case aside.
Rows(body) == {body[i] : i \in 1..Len(body)}

Contains(text, s) ==
    \E i \in 0..(Len(text) - Len(s)) :
       LowerText(SubSeq(text, i + 1, i + Len(s))) = LowerText(s)

\* C11: for a search string s that is not blank, the listing holds exactly the
\* rows whose eid or name (records: name or remarks) contains s as a literal
\* substring, letter case aside; it is empty when no row does.
C11_SearchLiteralSubstring ==
    /\ \A in \in ReadInputs :
         LET out == read_employees(variant, employees, seq,
                                   in[1], in[2], in[3], in[4])
         IN (/\ Serving(EmployeeVariants) /\ in[4] = "none"
             /\ in[1] # NULL /\ Strip(in[1]) # <<>>
             /\ in[2] = 0 /\ in[3] = DefaultLimit)
            => /\ out.code = 200
               /\ Rows(out.body) =
                    {r \in employees : \/ Contains(r.eid, in[1])
                                        \/ Contains(r.name, in[1])}
    /\ \A in \in SearchInputs :
         LET out == search_records(schema, records, seq, in[1], in[2])
             q == Strip(in[1])
         IN (/\ Serving({"RECORDS"}) /\ schema /\ in[2] = "none"
             /\ in[1] # <<"malformed">> /\ q # <<>>)
            => /\ out.code = 200
               /\ Rows(out.body) =
                    {r \in records :
                       \/ Contains(r.name, q)
                       \/ r.remarks # NULL /\ Contains(r.remarks, q)}
\* C12: a search with an empty or blank query, and a listing without a filter,
\* return what the unfiltered listing returns: every present row once, by id
\* descending.
C12_BlankSearchListsAll ==
    /\ \A in \in ReadInputs :
         LET out == read_employees(variant, employees, seq,
                                   in[1], in[2], in[3], in[4])
         IN (/\ Serving(EmployeeVariants) /\ in[4] = "none"
             /\ in[1] = NULL \/ Strip(in[1]) = <<>>
             /\ in[2] = 0 /\ in[3] = DefaultLimit)
            => out.code = 200 /\ out.body = OrderByIdDesc(employees)
    /\ \A in \in SearchInputs :
         LET out == search_records(schema, records, seq, in[1], in[2])
             all == get_all_records(schema, records, seq, in[2], {})
         IN (/\ Serving({"RECORDS"}) /\ schema /\ in[2] = "none"
             /\ in[1] # <<"malformed">> /\ Strip(in[1]) = <<>>)
            => /\ all.code = 200 /\ all.body = OrderByIdDesc(records)
               /\ out.code = 200 /\ out.body = all.body
\* C13: round trip. After a successful create_record, looking up the id of the
\* returned record finds one record whose name, rights, status and remarks
\* are the input's, remarks null when the input left it out.
C13_CreateRoundTrip ==
    [][\A in \in CreateRecordInputs :
         (/\ resp'.op = "create_record" /\ resp'.code \in Ok
          /\ CreateRecordReq(in[1], in[2], in[3]))
         => /\ Len(resp'.body) = 1
            /\ \E r \in records' :
                 /\ SelectRecord(records', resp'.body[1].id) = {r}
                 /\ resp'.body[1] = r
                 /\ r.id \notin {q.id : q \in records}
                 /\ \A f \in RecordFields : r[f] = in[1][f]]_vars

\* a record created without remarks, and one created with remarks
C13_Witness ==
    /\ resp.op = "create_record"
    /\ resp.code = 201
    /\ \E r \in records : r.remarks = NULL /\ resp.body = <<r>>
    /\ \E r \in records : r.remarks # NULL
\* C14: when the database connection cannot be established, startup does not
\* complete and the application does not go on to serve; a request that
\* cannot connect answers 500 and changes no row.
C14_ConnectFailure ==
    [][/\ (CreateTableSqlite("connect") \/ CreateTableMssql("connect")
            \/ InitDb("connect"))
         => phase' # "serving"
       /\ \A in \in AddInputs :
            (in[4] = "connect" /\ AddEmployeeReq(in[1], in[2], in[3], in[4]))
            => resp'.code = 500 /\ employees' = employees
       /\ \A in \in UpdateInputs :
            (in[5] = "connect"
                /\ UpdateEmployeeReq(in[1], in[2], in[3], in[4], in[5]))
            => resp'.code = 500 /\ employees' = employees
       /\ \A in \in DeleteInputs :
            (in[2] = "connect" /\ DeleteEmployeeReq(in[1], in[2]))
            => resp'.code = 500 /\ employees' = employees
       /\ \A in \in ReadInputs :
            (in[4] = "connect"
                /\ ReadEmployeesReq(in[1], in[2], in[3], in[4]))
            => resp'.code = 500 /\ employees' = employees
       /\ \A in \in CreateRecordInputs :
            (in[3] = "connect" /\ CreateRecordReq(in[1], in[2], in[3]))
            => resp'.code = 500 /\ records' = records
       /\ \A in \in UpdateRecordInputs :
            (in[4] = "connect" /\ UpdateRecordReq(in[1], in[2], in[3], in[4]))
            => resp'.code = 500 /\ records' = records
       /\ \A in \in DeleteInputs :
            (in[2] = "connect" /\ DeleteRecordReq(in[1], in[2]))
            => resp'.code = 500 /\ records' = records
       /\ ((\E io \in ExportFaults : GetAllRecordsReq("connect", io))
              \/ ExportCsvReq("connect"))
            => resp'.code = 500 /\ records' = records
       /\ \A in \in SearchInputs :
            (/\ in[2] = "connect" /\ in[1] # <<"malformed">>
             /\ Strip(in[1]) # <<>> /\ SearchRecordsReq(in[1], in[2]))
            => resp'.code = 500 /\ records' = records]_vars
\* C15: the paginated listing of the MS SQL variant is the elements at
\* positions skip .. skip+limit-1 of the (filtered) list ordered by idx
\* descending: at most limit rows, none skipped or repeated; with the defaults
\* skip = 0, limit = 100 the first 100 rows.
C15_Pagination ==
    \A in \in ReadInputs :
       LET out == read_employees(variant, employees, seq,
                                 in[1], in[2], in[3], in[4])
           hits == IF in[1] = NULL \/ in[1] = <<>> THEN employees
                   ELSE {r \in employees :
                           \/ Like(r.eid, SearchParam(in[1]))
                           \/ Like(r.name, SearchParam(in[1]))}
           skip == in[2]
           limit == in[3]
           Before(r) == Cardinality({q \in hits : q.idx > r.idx})
       IN (Serving({"MSSQL"}) /\ in[4] = "none")
          => /\ out.code = 200
             /\ Len(out.body) <= limit
             /\ Rows(out.body) = {r \in hits : /\ Before(r) >= skip
                                               /\ Before(r) < skip + limit}
             /\ \A i \in 1..Len(out.body) : Before(out.body[i]) = skip + i - 1

\* a page that starts after the newest row and is cut by limit
C15_Witness ==
    /\ variant = "MSSQL"
    /\ resp.op = "read_employees"
    /\ resp.code = 200
    /\ Cardinality(employees) = MaxId
    /\ Len(resp.body) = 1
    /\ \E r \in employees : r.idx > resp.body[1].idx
\* C16: initialization is idempotent. Run when the table exists (at a restart,
\* after any requests), it leaves every row and the id sequence as they
\* were, whatever its outcome; run a second time it changes nothing the first
\* run made.
C16_InitIdempotent ==
    [][(phase = "startup" /\ schema)
         => /\ schema'
            /\ employees' = employees
            /\ records' = records
            /\ seq' = seq
            /\ issued' = issued]_vars

\* initialization ran again on a table with a row and a deleted row's id
C16_Witness ==
    /\ phase = "serving"
    /\ resp.op \in {"create_table", "init_db"}
    /\ employees # {} \/ records # {}
    /\ \E i \in issued : \A r \in employees \cup records : RowId(r) # i
\* C17: in the records variant an update whose payload supplies none of name,
\* rights, status, remarks is answered 400 before any statement runs, whether
\* or not the id exists (and whether or not a statement would have failed):
\* no row and no timestamp changes and the connection, once open, is closed.
EmptyUpdateInputs ==
    Ids \X {[f \in RecordFields |-> NULL]} \X Times \X (Faults \ {"connect"})

C17_EmptyUpdateRejected ==
    \A in \in EmptyUpdateInputs :
       LET out == update_record(schema, records, seq,
                                in[1], in[2], in[3], in[4])
       IN Serving({"RECORDS"})
          => /\ out.code = 400
             /\ out.table = records
             /\ out.seq = seq
             /\ out.leak = 0

\* an empty update was refused while the table held a record
C17_Witness ==
    /\ resp.op = "update_record"
    /\ resp.code = 400
    /\ resp.open = 0
    /\ records # {}
\* C18: in get_all_records a failure to write the CSV or the JSON export file
\* does not change the outcome of the request: 200 with every record by id
\* descending, the table unchanged, the connection closed.
C18_ExportFailureHarmless ==
    [][\A io \in ExportFaults \ {{}} :
         (/\ resp'.op = "get_all_records" /\ schema
          /\ GetAllRecordsReq("none", io))
         => /\ resp'.code = 200
            /\ Rows(resp'.body) = records
            /\ Len(resp'.body) = Cardinality(records)
            /\ \A i \in 1..(Len(resp'.body) - 1) :
                  resp'.body[i].id > resp'.body[i + 1].id
            /\ records' = records
            /\ resp'.open = 0]_vars

\* a listing of two records answered although both export files failed
C18_Witness ==
    /\ resp.op = "get_all_records"
    /\ resp.code = 200
    /\ resp.log = {"CSV export failed", "JSON export failed"}
    /\ Len(resp.body) = MaxId
\* C19: in the records variant no request sets the remarks of a record back
\* to null: a record whose remarks is not null keeps a non-null remarks in
\* every later state in which the record exists.
C19_RemarksStaysSet ==
    [][\A r \in records : \A q \in records' :
         (r.id = q.id /\ r.remarks # NULL) => q.remarks # NULL]_vars

\* an update left the remarks of the record it changed in place
C19_Witness ==
    /\ resp.op = "update_record"
    /\ resp.code = 200
    /\ Len(resp.body) = 1
    /\ resp.body[1].remarks # NULL
    /\ \E r \in records : r.remarks = NULL
\* C20: create_table of the MS SQL variant retries connection failures only.
\* An error of the CREATE TABLE statement (or its commit) on an established
\* connection ends startup at once, with no further attempt and no sleep; the
\* delay is slept only between two attempts: once per failed connection but
\* the last, at most max_retries - 1 times.
C20_OnlyConnectRetried ==
    [][\A f \in StartFaults :
         CreateTableMssql(f)
         => /\ f \in {"stmt1", "stmt2"}
                 => /\ phase' = "crashed"
                    /\ attempt' = attempt /\ sleeps' = sleeps
            /\ (f = "connect" /\ attempt + 1 < max_retries)
                 => /\ phase' = "startup"
                    /\ attempt' = attempt + 1 /\ sleeps' = sleeps + 1
            /\ (f = "connect" /\ attempt + 1 = max_retries)
                 => phase' = "crashed" /\ sleeps' = sleeps
            /\ sleeps' = attempt'
            /\ sleeps' <= max_retries - 1]_vars

\* two connections failed, the third was made and CREATE TABLE raised
C20_Witness ==
    /\ variant = "MSSQL"
    /\ phase = "crashed"
    /\ resp.op = "create_table"
    /\ resp.open = 1
    /\ attempt = 2
    /\ sleeps = 2
====
